---- MODULE Spec2Model ----
(***************************************************************************)
(* Change-detection and tiered-escalation engine:                          *)
(*   vision_ocr.py     text normalisation and content hashes               *)
(*   footprints.py     Footprints, the sqlite fingerprint store            *)
(*   vision_router.py  VisionRouter.check_or_escalate and its counters     *)
(*                                                                         *)
(* A Python str is modelled as a sequence of one-character strings, a hex  *)
(* digest as the digest's name followed by the hashed content (sha1 and    *)
(* sha256 are taken to be collision free), a confidence as a percentage.   *)
(***************************************************************************)
EXTENDS Integers, Sequences, FiniteSets, TLC

\* ------------------------------------------------------------------ bounds
\* calls of check_or_escalate in one behaviour
MaxCalls == 2
\* RouterConfig.min_chars_for_confidence of the routers explored (default 300)
MinChars == 2
\* size of one behaviour of the store specification: a direct call of upsert
\* and a tick of the clock count for one, a call of check_or_escalate for two
StoreOps == 4
\* characters of the longest text handed to text_sha on its own
NormLen == 3

\* RouterConfig.min_confidence, as a percentage
MinConfidence == 65

\* ------------------------------------------------------------ vision_ocr.py
EmptyStr == <<>>
\* Python None (a keyword argument that is not supplied)
None == <<"None">>
\* SQL NULL (a column an INSERT did not name)
NULL == <<"NULL">>
\* a short str held in a TEXT column, e.g. a model name
Str(s) == <<s>>

IsSpace(ch) == ch \in {" ", "\n", "\t"}
\* the Greek letters are written by name: SIGMA is the capital, sigma the
\* small letter, fsigma the small letter's form at the end of a word
IsAlnum(ch) == ch \in {"a", "b", "A", "B", "1", "SIGMA", "sigma", "fsigma"}
Lower(ch) == CASE ch = "A" -> "a" [] ch = "B" -> "b" [] OTHER -> ch

\* str.lower() maps a capital sigma to the final form when a cased letter
\* comes before it and none after it, case-ignorable characters skipped
Cased(ch) == ch \in {"a", "b", "A", "B", "SIGMA", "sigma", "fsigma"}
CaseIgnorable(ch) == ch \in {".", ":", "'"}
RECURSIVE CasedBefore(_, _)
CasedBefore(s, i) ==
    IF i < 1 THEN FALSE
    ELSE IF CaseIgnorable(s[i]) THEN CasedBefore(s, i - 1)
    ELSE Cased(s[i])
RECURSIVE CasedAfter(_, _)
CasedAfter(s, i) ==
    IF i > Len(s) THEN FALSE
    ELSE IF CaseIgnorable(s[i]) THEN CasedAfter(s, i + 1)
    ELSE Cased(s[i])
\* str.lower()
lower(s) ==
    [i \in 1..Len(s) |->
        IF s[i] = "SIGMA"
        THEN (IF CasedBefore(s, i - 1) /\ ~CasedAfter(s, i + 1) THEN "fsigma" ELSE "sigma")
        ELSE Lower(s[i])]

\* str.split(): the maximal runs of non-whitespace characters
RECURSIVE SplitWords(_, _, _)
SplitWords(s, cur, acc) ==
    IF s = <<>> THEN (IF cur = <<>> THEN acc ELSE Append(acc, cur))
    ELSE IF IsSpace(Head(s))
         THEN SplitWords(Tail(s), <<>>, IF cur = <<>> THEN acc ELSE Append(acc, cur))
         ELSE SplitWords(Tail(s), Append(cur, Head(s)), acc)

\* " ".join(words)
RECURSIVE JoinWords(_)
JoinWords(ws) ==
    IF ws = <<>> THEN <<>>
    ELSE IF Len(ws) = 1 THEN ws[1]
    ELSE ws[1] \o <<" ">> \o JoinWords(Tail(ws))

KeepChar(ch) == IsAlnum(ch) \/ IsSpace(ch) \/ ch \in {"-", "_", "/", ".", ":", "@"}

normalize_text(s) ==
    LET lowered == lower(s)
    IN  JoinWords(SplitWords(SelectSeq(lowered, KeepChar), <<>>, <<>>))

text_sha(s) == <<"sha256">> \o normalize_text(s)

img_sha(b) == <<"sha1", b>>

\* str.strip() is non-empty
NonBlank(s) == \E i \in 1..Len(s) : ~IsSpace(s[i])

Rep(ch, n) == [i \in 1..n |-> ch]

\* what an analyzer's run() returns: text is stripped, and an empty detection
\* has confidence 0.0. One output for each way _needs_escalation can go: no
\* text, too little text, low confidence, and two different adequate texts.
OcrOutputs ==
    { [text |-> <<>>, confidence |-> 0],
      [text |-> Rep("a", MinChars - 1), confidence |-> 90],
      [text |-> Rep("a", MinChars), confidence |-> 30],
      [text |-> Rep("a", MinChars), confidence |-> MinConfidence],
      [text |-> Rep("b", MinChars), confidence |-> 90] }

\* ------------------------------------------------------------ footprints.py
Urls == {"u1"}
Shots == {"b1", "b2"}

TextColumns ==
    {"canonical_url", "last_model", "screenshot_sha", "text_sha_paddle",
     "text_sha_azure", "etag", "last_modified", "notes"}

OrEmpty(v) == IF v = NULL THEN EmptyStr ELSE v

\* Footprints.get: the PageFP of a stored row; callers test u \in DOMAIN pg first
Get(pg, u) ==
    [url |-> u,
     screenshot_sha |-> OrEmpty(pg[u].screenshot_sha),
     text_sha_paddle |-> OrEmpty(pg[u].text_sha_paddle),
     text_sha_azure |-> OrEmpty(pg[u].text_sha_azure),
     last_model |-> OrEmpty(pg[u].last_model),
     canonical_url |-> OrEmpty(pg[u].canonical_url),
     etag |-> OrEmpty(pg[u].etag),
     last_modified |-> OrEmpty(pg[u].last_modified),
     last_seen |-> pg[u].last_seen]

Found(pg, u) == u \in DOMAIN pg

\* the keyword arguments that are not None
Supplied(kvs) == {k \in DOMAIN kvs : kvs[k] # None}

\* an UPDATE that sets last_seen alone
UpdateRow_LastSeenOnly(row, kvs, t) ==
    [c \in DOMAIN row |-> IF c = "last_seen" THEN t ELSE row[c]]

\* an UPDATE that rewrites the whole row from the keyword arguments
UpdateRow_ClearsUnsupplied(row, kvs, t) ==
    [c \in DOMAIN row |->
        IF c = "last_seen" THEN t
        ELSE IF c \in Supplied(kvs) THEN kvs[c]
        ELSE IF c = "first_seen" THEN row[c]
        ELSE NULL]

\* an UPDATE that writes 0 for last_seen
UpdateRow_LastSeenReset(row, kvs, t) ==
    [c \in DOMAIN row |->
        IF c = "last_seen" THEN 0
        ELSE IF c \in Supplied(kvs) THEN kvs[c]
        ELSE row[c]]

\* an UPDATE that writes first_seen as well
UpdateRow_ResetsFirstSeen(row, kvs, t) ==
    [c \in DOMAIN row |->
        IF c \in {"first_seen", "last_seen"} THEN t
        ELSE IF c \in Supplied(kvs) THEN kvs[c]
        ELSE row[c]]

UpdateRow(row, kvs, t) ==
    [c \in DOMAIN row |->
        IF c = "last_seen" THEN t
        ELSE IF c \in Supplied(kvs) THEN kvs[c]
        ELSE row[c]]

\* an INSERT that leaves first_seen at 0
InsertRow_FirstSeenZero(kvs, t) ==
    [c \in TextColumns \cup {"first_seen", "last_seen"} |->
        IF c = "last_seen" THEN t
        ELSE IF c = "first_seen" THEN 0
        ELSE IF c \in Supplied(kvs) THEN kvs[c]
        ELSE NULL]

InsertRow(kvs, t) ==
    [c \in TextColumns \cup {"first_seen", "last_seen"} |->
        IF c \in {"first_seen", "last_seen"} THEN t
        ELSE IF c \in Supplied(kvs) THEN kvs[c]
        ELSE NULL]

\* an upsert that only updates
Upsert_NoInsert(pg, u, kvs, t) ==
    IF Found(pg, u)
    THEN IF Supplied(kvs) = {}
         THEN [err |-> TRUE, pages |-> pg]
         ELSE [err |-> FALSE,
               pages |-> [pg EXCEPT ![u] = UpdateRow(pg[u], kvs, t)]]
    ELSE [err |-> FALSE, pages |-> pg]

\* Footprints.upsert at clock value t. "UPDATE pages SET , last_seen=?" is what
\* the UPDATE branch builds when no field is supplied: sqlite rejects it.
Upsert(pg, u, kvs, t) ==
    IF Found(pg, u)
    THEN IF Supplied(kvs) = {}
         THEN [err |-> TRUE, pages |-> pg]
         ELSE [err |-> FALSE,
               pages |-> [pg EXCEPT ![u] = UpdateRow(pg[u], kvs, t)]]
    ELSE [err |-> FALSE,
          pages |-> [x \in DOMAIN pg \cup {u} |->
                        IF x = u THEN InsertRow(kvs, t) ELSE pg[x]]]

\* Footprints.record_escalation: the row it inserts (info is the JSON text of
\* the diagnostics, here the mapping itself)
EscalationRow(t, u, from, to, reason, info) ==
    [ts |-> t, url |-> u, from_model |-> from, to_model |-> to,
     reason |-> reason, info |-> info]

\* ----------------------------------------------------------- vision_router.py
DefaultOrder == <<"paddle", "azure", "gemini">>

Orders ==
    { <<"paddle", "azure", "gemini">>, <<"paddle", "gemini", "azure">>,
      <<"azure", "paddle", "gemini">>, <<"azure", "gemini", "paddle">>,
      <<"gemini", "paddle", "azure">>, <<"gemini", "azure", "paddle">>,
      <<"paddle", "tesseract">>, <<>> }

\* RouterConfig and its __post_init__
RouterConfig(p, a, g, order) ==
    [enable_paddle |-> p, enable_azure |-> a, enable_gemini |-> g,
     order |-> IF order = <<>> THEN DefaultOrder ELSE order,
     min_chars_for_confidence |-> MinChars,
     min_confidence |-> MinConfidence]

Configs == {RouterConfig(p, a, g, o) : p \in BOOLEAN, a \in BOOLEAN, g \in BOOLEAN, o \in Orders}

\* _needs_escalation with the length test written <=
needs_escalation_AtMost(c, o, prev_text_sha) ==
    IF ~NonBlank(o.text) THEN TRUE
    ELSE IF Len(o.text) <= c.min_chars_for_confidence THEN TRUE
    ELSE IF o.confidence < c.min_confidence THEN TRUE
    ELSE IF prev_text_sha # EmptyStr /\ text_sha(o.text) # prev_text_sha THEN TRUE
    ELSE FALSE

\* _needs_escalation comparing the hashes even when none was stored
needs_escalation_NoPrevCheck(c, o, prev_text_sha) ==
    IF ~NonBlank(o.text) THEN TRUE
    ELSE IF Len(o.text) < c.min_chars_for_confidence THEN TRUE
    ELSE IF o.confidence < c.min_confidence THEN TRUE
    ELSE IF text_sha(o.text) # prev_text_sha THEN TRUE
    ELSE FALSE

\* VisionRouter._needs_escalation
needs_escalation(c, o, prev_text_sha) ==
    IF ~NonBlank(o.text) THEN TRUE
    ELSE IF Len(o.text) < c.min_chars_for_confidence THEN TRUE
    ELSE IF o.confidence < c.min_confidence THEN TRUE
    ELSE IF prev_text_sha # EmptyStr /\ text_sha(o.text) # prev_text_sha THEN TRUE
    ELSE FALSE

\* the fast-path test reading the local tier's text hash instead
ScreenshotUnchanged_TextColumn(pg, u, b) ==
    Found(pg, u) /\ Get(pg, u).text_sha_paddle = img_sha(b)

\* line 66: a row is stored and its screenshot hash is the new one
ScreenshotUnchanged(pg, u, b) == Found(pg, u) /\ Get(pg, u).screenshot_sha = img_sha(b)

\* the expensive stage running whatever enable_gemini says
StageRuns_GeminiAlways(c, s) ==
    \/ s = "paddle" /\ c.enable_paddle
    \/ s = "azure" /\ c.enable_azure
    \/ s = "gemini"

StageRuns(c, s) ==
    \/ s = "paddle" /\ c.enable_paddle
    \/ s = "azure" /\ c.enable_azure
    \/ s = "gemini" /\ c.enable_gemini

\* the reason string check_or_escalate hands to record_escalation
EscalationReason == "low_conf_or_changed"

\* what the on_need_gemini argument does when called: absent (no callback
\* given), or a callback that returns None, {} or a field mapping, or raises
NoFields == [n \in {} |-> ""]
SomeFields == [n \in {"title"} |-> "t"]
Callbacks == {"absent", "none", "empty", "fields", "raise"}
\* the result of the callback dropped
CallbackFields_Empty(cb) == NoFields
\* fields handed out whatever the callback did
CallbackFields_Always(cb) == SomeFields
CallbackFields(cb) == IF cb = "fields" THEN SomeFields ELSE NoFields

VARIABLES
    cfg,                 \* VisionRouter.cfg
    pages,               \* table pages: url -> row
    escalations,         \* table escalations, in insertion order
    now,                 \* int(time.time()) at the store's writes
    skipped_nochange,    \* VisionRouter counters
    used_cheap_ocr,
    escalated_to_gemini,
    pc,                  \* "idle", or "walk" inside the loop over cfg.order
    url,                 \* arguments and locals of the running (or last) call
    shot,
    prev_paddle_sha,
    prev_azure_sha,
    idx,                 \* position of the loop in cfg.order
    ocr_used,
    last_stage,
    ret,                 \* how the last call ended
    ncalls,              \* calls started
    nterminal,           \* calls that returned skipped, a cheap tier unchanged, or gemini
    pre,                 \* pages, escalations and counters when the call started
    trace,               \* analyzers and callback invoked by the call, in order
    prior,               \* arguments and outcome of the call before this one
    api,                 \* the last direct call of Footprints.upsert, and how many
                         \* were made
    norm,                \* two texts handed to text_sha
    runs,                \* table runs, in insertion order
    runlog,              \* record_run_summary calls made, and whether the last raised
    tbl,                 \* table pages as the rows two connections write
    clients,             \* the upsert call each connection is in
    other                \* the check_or_escalate call that is not running now

vars == <<cfg, pages, escalations, now, skipped_nochange, used_cheap_ocr,
          escalated_to_gemini, pc, url, shot, prev_paddle_sha, prev_azure_sha,
          idx, ocr_used, last_stage, ret, ncalls, nterminal, pre, trace, prior, api,
          norm, runs, runlog, tbl, clients, other>>

aux == <<norm, runs, runlog, tbl, clients, other>>
store == <<pages, escalations>>
counters == <<skipped_nochange, used_cheap_ocr, escalated_to_gemini>>
locals == <<url, shot, prev_paddle_sha, prev_azure_sha, idx, ocr_used, last_stage>>

NoRet == [kind |-> "none", status |-> "", changed |-> FALSE, fields |-> NoFields, by |-> ""]
Returned(status, changed, fields) ==
    [kind |-> "returned", status |-> status, changed |-> changed, fields |-> fields, by |-> ""]
Raised(by) ==
    [kind |-> "raised", status |-> "", changed |-> FALSE, fields |-> NoFields, by |-> by]

Snapshot ==
    [pages |-> pages, nesc |-> Len(escalations), skipped |-> skipped_nochange,
     cheap |-> used_cheap_ocr, gemini |-> escalated_to_gemini]

NoPrior == [url |-> "", shot |-> "", kind |-> "none", status |-> "", by |-> ""]

NoKvs == [c \in {} |-> NULL]
NoApi == [n |-> 0, url |-> "", kvs |-> NoKvs, err |-> FALSE]

\* what the sqlite file can hold when the router is constructed: nothing, or a
\* row left by earlier runs (a paddle-only run, then an azure-only run on a
\* new screenshot, both resolving on the same text)
SeedRow ==
    [c \in TextColumns \cup {"first_seen", "last_seen"} |->
        CASE c \in {"first_seen", "last_seen"} -> 0
          [] c = "screenshot_sha" -> img_sha("b2")
          [] c \in {"text_sha_paddle", "text_sha_azure"} -> text_sha(Rep("a", MinChars))
          [] c = "last_model" -> Str("azure")
          [] OTHER -> NULL]
SeedStores == { [u \in {} |-> NULL], [u \in {"u1"} |-> SeedRow] }

\* a router just constructed on a store
RouterInit ==
    /\ cfg \in Configs
    /\ pages \in SeedStores
    /\ escalations = <<>>
    /\ now = 0
    /\ skipped_nochange = 0
    /\ used_cheap_ocr = 0
    /\ escalated_to_gemini = 0
    /\ pc = "idle"
    /\ url = ""
    /\ shot = ""
    /\ prev_paddle_sha = EmptyStr
    /\ prev_azure_sha = EmptyStr
    /\ idx = 0
    /\ ocr_used = FALSE
    /\ last_stage = ""
    /\ ret = NoRet
    /\ ncalls = 0
    /\ nterminal = 0
    /\ pre = Snapshot
    /\ trace = <<>>
    /\ prior = NoPrior
    /\ api = NoApi

NoNorm == [s1 |-> <<>>, s2 |-> <<>>]
NoRunLog == [calls |-> 0, err |-> FALSE]
\* the connections to one sqlite file, each with its own Footprints
Conns == {"c1", "c2"}
\* the call of check_or_escalate that is not running: its arguments, locals
\* and outcome (id names the call, "A" for the one on u1, "B" for the one on u2)
NoContext(id) ==
    [id |-> id, pc |-> "idle", url |-> "", shot |-> "", prev_paddle_sha |-> EmptyStr,
     prev_azure_sha |-> EmptyStr, idx |-> 0, ocr_used |-> FALSE, last_stage |-> "",
     ret |-> NoRet, trace |-> <<>>, pre |-> <<>>]
\* a connection that is in no upsert call; n counts the calls it started
NoCall == [pc |-> "idle", n |-> 0, url |-> "", kvs |-> NoKvs, existing |-> FALSE, err |-> ""]

Init ==
    /\ RouterInit
    /\ norm = NoNorm
    /\ runs = <<>>
    /\ runlog = NoRunLog
    /\ tbl = <<>>
    /\ clients = [p \in Conns |-> NoCall]
    /\ other = NoContext("B")

\* entry of check_or_escalate(u, b): the bookkeeping of a call that starts
Enter(u, b) ==
    /\ pc = "idle"
    /\ ncalls < MaxCalls
    /\ ncalls' = ncalls + 1
    /\ url' = u
    /\ shot' = b
    /\ pre' = Snapshot
    /\ trace' = <<>>
    /\ prior' = [url |-> url, shot |-> shot, kind |-> ret.kind, status |-> ret.status, by |-> ret.by]

\* lines 60-70: the stored screenshot hash equals the new one
FastPathSkip(u, b) ==
    /\ Enter(u, b)
    /\ ScreenshotUnchanged(pages, u, b)
    /\ skipped_nochange' = skipped_nochange + 1
    /\ LET up == Upsert(pages, u, [screenshot_sha |-> img_sha(b)], now)
       IN  /\ pages' = up.pages
           /\ ret' = IF up.err THEN Raised("store") ELSE Returned("skipped", FALSE, NoFields)
           /\ nterminal' = IF up.err THEN nterminal ELSE nterminal + 1
    /\ prev_paddle_sha' = Get(pages, u).text_sha_paddle
    /\ prev_azure_sha' = Get(pages, u).text_sha_azure
    /\ idx' = 0
    /\ ocr_used' = FALSE
    /\ last_stage' = ""
    /\ UNCHANGED <<cfg, api, aux, escalations, now, used_cheap_ocr, escalated_to_gemini, pc>>

\* lines 60-74: no stored row, or another screenshot hash: the tier walk starts
BeginWalk(u, b) ==
    /\ Enter(u, b)
    /\ ~ScreenshotUnchanged(pages, u, b)
    /\ prev_paddle_sha' = IF Found(pages, u) THEN Get(pages, u).text_sha_paddle ELSE EmptyStr
    /\ prev_azure_sha' = IF Found(pages, u) THEN Get(pages, u).text_sha_azure ELSE EmptyStr
    /\ pc' = "walk"
    /\ idx' = 1
    /\ ocr_used' = FALSE
    /\ last_stage' = ""
    /\ ret' = NoRet
    /\ UNCHANGED <<cfg, api, aux, store, now, counters, nterminal>>

InLoop == pc = "walk" /\ idx <= Len(cfg.order)
\* the loop walking the default order whatever cfg.order says
Stage_DefaultOrder == DefaultOrder[idx]
Stage == cfg.order[idx]

TraceOcr(tier, o, esc) ==
    [tier |-> tier, text |-> o.text, confidence |-> o.confidence, escalated |-> esc, raised |-> FALSE,
     returned |-> NoFields]
TraceRaise(tier) ==
    [tier |-> tier, text |-> <<>>, confidence |-> 0, escalated |-> FALSE, raised |-> TRUE,
     returned |-> NoFields]
\* returned: the mapping the callback handed back (None counts as no fields)
TraceCallback(cb) ==
    [tier |-> "gemini", text |-> <<>>, confidence |-> 0, escalated |-> FALSE, raised |-> cb = "raise",
     returned |-> IF cb = "fields" THEN [n \in {"title"} |-> "t"] ELSE [n \in {} |-> ""]]

\* a cheap tier that records an escalation event also when it resolves
CheapStage_LogsAlways(tier, column, prev_sha, o) ==
    /\ InLoop /\ Stage = tier /\ StageRuns(cfg, tier)
    /\ last_stage' = tier
    /\ ocr_used' = TRUE
    /\ LET up == Upsert(pages, url,
                        [c \in {"screenshot_sha", column, "last_model"} |->
                            IF c = "screenshot_sha" THEN img_sha(shot)
                            ELSE IF c = column THEN text_sha(o.text)
                            ELSE Str(tier)],
                        now)
           esc == needs_escalation(cfg, o, prev_sha)
       IN  /\ pages' = up.pages
           /\ trace' = Append(trace, TraceOcr(tier, o, esc))
           /\ escalations' = Append(escalations,
                  EscalationRow(now, url, tier, "next", EscalationReason,
                                [conf |-> o.confidence, chars |-> Len(o.text)]))
           /\ IF esc
              THEN /\ idx' = idx + 1
                   /\ UNCHANGED <<pc, ret, used_cheap_ocr, nterminal>>
              ELSE /\ used_cheap_ocr' = used_cheap_ocr + 1
                   /\ ret' = Returned(tier, FALSE, NoFields)
                   /\ nterminal' = nterminal + 1
                   /\ pc' = "idle"
                   /\ UNCHANGED idx
    /\ UNCHANGED <<cfg, api, aux, now, skipped_nochange, escalated_to_gemini, url, shot,
                   prev_paddle_sha, prev_azure_sha, ncalls, pre, prior>>

\* a cheap tier that stores its hashes only when it resolves
CheapStage_EvaluateFirst(tier, column, prev_sha, o) ==
    /\ InLoop /\ Stage = tier /\ StageRuns(cfg, tier)
    /\ last_stage' = tier
    /\ ocr_used' = TRUE
    /\ LET up == Upsert(pages, url,
                        [c \in {"screenshot_sha", column, "last_model"} |->
                            IF c = "screenshot_sha" THEN img_sha(shot)
                            ELSE IF c = column THEN text_sha(o.text)
                            ELSE Str(tier)],
                        now)
           esc == needs_escalation(cfg, o, prev_sha)
       IN  /\ trace' = Append(trace, TraceOcr(tier, o, esc))
           /\ IF esc
              THEN /\ escalations' = Append(escalations,
                          EscalationRow(now, url, tier, "next", EscalationReason,
                                        [conf |-> o.confidence, chars |-> Len(o.text)]))
                   /\ idx' = idx + 1
                   /\ UNCHANGED <<pages, pc, ret, used_cheap_ocr, nterminal>>
              ELSE /\ pages' = up.pages
                   /\ used_cheap_ocr' = used_cheap_ocr + 1
                   /\ ret' = Returned(tier, FALSE, NoFields)
                   /\ nterminal' = nterminal + 1
                   /\ pc' = "idle"
                   /\ UNCHANGED <<escalations, idx>>
    /\ UNCHANGED <<cfg, api, aux, now, skipped_nochange, escalated_to_gemini, url, shot,
                   prev_paddle_sha, prev_azure_sha, ncalls, pre, prior>>

\* lines 78-88 and 90-100: one cheap tier whose analyzer returns o
CheapStage(tier, column, prev_sha, o) ==
    /\ InLoop /\ Stage = tier /\ StageRuns(cfg, tier)
    /\ last_stage' = tier
    /\ ocr_used' = TRUE
    /\ LET up == Upsert(pages, url,
                        [c \in {"screenshot_sha", column, "last_model"} |->
                            IF c = "screenshot_sha" THEN img_sha(shot)
                            ELSE IF c = column THEN text_sha(o.text)
                            ELSE Str(tier)],
                        now)
           esc == needs_escalation(cfg, o, prev_sha)
       IN  /\ pages' = up.pages
           /\ trace' = Append(trace, TraceOcr(tier, o, esc))
           /\ IF esc
              THEN /\ escalations' = Append(escalations,
                          EscalationRow(now, url, tier, "next", EscalationReason,
                                        [conf |-> o.confidence, chars |-> Len(o.text)]))
                   /\ idx' = idx + 1
                   /\ UNCHANGED <<pc, ret, used_cheap_ocr, nterminal>>
              ELSE /\ used_cheap_ocr' = used_cheap_ocr + 1
                   /\ ret' = Returned(tier, FALSE, NoFields)
                   /\ nterminal' = nterminal + 1
                   /\ pc' = "idle"
                   /\ UNCHANGED <<escalations, idx>>
    /\ UNCHANGED <<cfg, api, aux, now, skipped_nochange, escalated_to_gemini, url, shot,
                   prev_paddle_sha, prev_azure_sha, ncalls, pre, prior>>

\* an analyzer error swallowed: the loop goes on to the next stage
CheapStageRaises_FallsThrough(tier) ==
    /\ InLoop /\ Stage = tier /\ StageRuns(cfg, tier)
    /\ last_stage' = tier
    /\ trace' = Append(trace, TraceRaise(tier))
    /\ idx' = idx + 1
    /\ UNCHANGED <<cfg, api, aux, store, now, counters, pc, url, shot, prev_paddle_sha, prev_azure_sha,
                   ocr_used, ret, ncalls, nterminal, pre, prior>>

\* line 79 or 91: the analyzer raises, and the error leaves check_or_escalate
CheapStageRaises(tier) ==
    /\ InLoop /\ Stage = tier /\ StageRuns(cfg, tier)
    /\ last_stage' = tier
    /\ trace' = Append(trace, TraceRaise(tier))
    /\ ret' = Raised(tier)
    /\ pc' = "idle"
    /\ UNCHANGED <<cfg, api, aux, store, now, counters, url, shot, prev_paddle_sha, prev_azure_sha,
                   idx, ocr_used, ncalls, nterminal, pre, prior>>

PaddleStage == \E o \in OcrOutputs :
    CheapStage("paddle", "text_sha_paddle", prev_paddle_sha, o)
PaddleRaises == CheapStageRaises("paddle")
\* the azure stage writing the paddle column
AzureStage_PaddleColumn == \E o \in OcrOutputs :
    CheapStage("azure", "text_sha_paddle", prev_azure_sha, o)
AzureStage == \E o \in OcrOutputs :
    CheapStage("azure", "text_sha_azure", prev_azure_sha, o)
AzureRaises == CheapStageRaises("azure")

\* lines 102-110: the expensive tier
GeminiStage == \E cb \in Callbacks :
    /\ InLoop /\ Stage = "gemini" /\ StageRuns(cfg, "gemini")
    /\ last_stage' = "gemini"
    /\ escalated_to_gemini' = escalated_to_gemini + 1
    /\ trace' = IF cb = "absent" THEN trace ELSE Append(trace, TraceCallback(cb))
    /\ IF cb = "raise"
       THEN /\ ret' = Raised("callback")
            /\ UNCHANGED <<pages, nterminal>>
       ELSE LET up == Upsert(pages, url,
                             [screenshot_sha |-> img_sha(shot), last_model |-> Str("gemini")],
                             now)
            IN  /\ pages' = up.pages
                /\ ret' = Returned("gemini", TRUE, CallbackFields(cb))
                /\ nterminal' = nterminal + 1
    /\ pc' = "idle"
    /\ UNCHANGED <<cfg, api, aux, escalations, now, skipped_nochange, used_cheap_ocr, url, shot,
                   prev_paddle_sha, prev_azure_sha, idx, ocr_used, ncalls, pre, prior>>

\* lines 76-77: a stage that is disabled or not a known name only sets last_stage
SkipStage ==
    /\ InLoop /\ ~StageRuns(cfg, Stage)
    /\ last_stage' = Stage
    /\ idx' = idx + 1
    /\ UNCHANGED <<cfg, api, aux, store, now, counters, pc, url, shot, prev_paddle_sha,
                   prev_azure_sha, ocr_used, ret, ncalls, nterminal, pre, trace, prior>>

\* exhaustion counted as a cheap-tier resolution
Exhausted_CountsCheap ==
    /\ pc = "walk" /\ idx > Len(cfg.order)
    /\ ret' = IF ocr_used
              THEN Returned(IF last_stage # "" THEN last_stage ELSE "ocr", TRUE, NoFields)
              ELSE Returned("noop", TRUE, NoFields)
    /\ used_cheap_ocr' = used_cheap_ocr + 1
    /\ pc' = "idle"
    /\ UNCHANGED <<cfg, api, aux, store, now, skipped_nochange, escalated_to_gemini, locals, ncalls,
                   nterminal, pre, trace, prior>>

\* the disabled pipeline reported as an unchanged page
Exhausted_NoopUnchanged ==
    /\ pc = "walk" /\ idx > Len(cfg.order)
    /\ ret' = IF ocr_used
              THEN Returned(IF last_stage # "" THEN last_stage ELSE "ocr", TRUE, NoFields)
              ELSE Returned("noop", FALSE, NoFields)
    /\ pc' = "idle"
    /\ UNCHANGED <<cfg, api, aux, store, now, counters, locals, ncalls, nterminal, pre, trace, prior>>

\* lines 112-119: the loop ended without a return
Exhausted ==
    /\ pc = "walk" /\ idx > Len(cfg.order)
    /\ ret' = IF ocr_used
              THEN Returned(IF last_stage # "" THEN last_stage ELSE "ocr", TRUE, NoFields)
              ELSE Returned("noop", TRUE, NoFields)
    /\ pc' = "idle"
    /\ UNCHANGED <<cfg, api, aux, store, now, counters, locals, ncalls, nterminal, pre, trace, prior>>

Next ==
    \/ \E u \in Urls, b \in Shots : FastPathSkip(u, b)
    \/ \E u \in Urls, b \in Shots : BeginWalk(u, b)
    \/ PaddleStage
    \/ PaddleRaises
    \/ AzureStage
    \/ AzureRaises
    \/ GeminiStage
    \/ SkipStage
    \/ Exhausted

Spec == Init /\ [][Next]_vars

\* ------------------------------------------- the store used directly, and time
\* VisionRouter.summary: the three counters, in the order of its keys
summary == <<skipped_nochange, used_cheap_ocr, escalated_to_gemini>>

\* keyword arguments of the direct upsert calls: none, a None, one column, a
\* column with a None beside it, each text hash alone, and both together
DirectKvs ==
    { NoKvs,
      [etag |-> None],
      [etag |-> Str("e1")],
      [screenshot_sha |-> img_sha("b1"), etag |-> None],
      [text_sha_paddle |-> text_sha(Rep("b", MinChars))],
      [text_sha_azure |-> text_sha(Rep("b", MinChars))],
      [text_sha_paddle |-> text_sha(Rep("a", MinChars)),
       text_sha_azure |-> text_sha(Rep("a", MinChars))] }

\* size of the behaviour so far
OpsDone == 2 * ncalls + api.n + now

\* int(time.time()) moves on between two statements
Tick ==
    /\ OpsDone < StoreOps
    /\ now' = now + 1
    /\ UNCHANGED <<cfg, api, aux, store, counters, pc, locals, ret, ncalls, nterminal, pre, trace, prior>>

\* Footprints.upsert(u, **kvs) called by the program itself, between two
\* check_or_escalate calls
DirectUpsert(u, kvs) ==
    /\ pc = "idle" /\ OpsDone < StoreOps
    /\ LET r == Upsert(pages, u, kvs, now)
       IN  /\ pages' = r.pages
           /\ api' = [n |-> api.n + 1, url |-> u, kvs |-> kvs, err |-> r.err]
    /\ UNCHANGED <<cfg, aux, escalations, now, counters, pc, locals, ret, ncalls, nterminal,
                   pre, trace, prior>>

\* the routers of the store specification: any tiers enabled, in the default order
StoreConfigs ==
    { RouterConfig(p, a, g, DefaultOrder) : p \in BOOLEAN, a \in BOOLEAN, g \in BOOLEAN }

StoreInit == Init /\ cfg \in StoreConfigs

StoreNext ==
    \/ Next /\ OpsDone' <= StoreOps
    \/ Tick
    \/ \E u \in Urls, kvs \in DirectKvs : DirectUpsert(u, kvs)

StoreSpec == StoreInit /\ [][StoreNext]_vars

\* ------------------------------------------------------------ the runs log
\* size of the behaviour so far, summaries counted for one
LogOpsDone == 2 * ncalls + runlog.calls + now

\* Footprints.record_run_summary(**summary()) after a batch of calls. ts is
\* the PRIMARY KEY of runs: sqlite rejects a second row with the same second.
RecordRunSummary ==
    /\ pc = "idle" /\ LogOpsDone < StoreOps
    /\ IF \E i \in 1..Len(runs) : runs[i].ts = now
       THEN /\ runs' = runs
            /\ runlog' = [calls |-> runlog.calls + 1, err |-> TRUE]
       ELSE /\ runs' = Append(runs, [ts |-> now, skipped_nochange |-> summary[1],
                                      used_cheap_ocr |-> summary[2],
                                      escalated_to_gemini |-> summary[3]])
            /\ runlog' = [calls |-> runlog.calls + 1, err |-> FALSE]
    /\ UNCHANGED <<cfg, api, store, now, counters, pc, locals, ret, ncalls, nterminal, pre,
                   trace, prior, norm, tbl, clients, other>>

LogNext ==
    \/ Next /\ LogOpsDone' <= StoreOps
    \/ Tick
    \/ RecordRunSummary

LogSpec == StoreInit /\ [][LogNext]_vars

\* ------------------------------------- upsert calls of two connections
RaceUrls == {"u1", "u2"}
RaceKvs ==
    { NoKvs, [screenshot_sha |-> img_sha("b1")], [screenshot_sha |-> img_sha("b2")] }

\* upsert calls started so far
RaceOpsDone == clients["c1"].n + clients["c2"].n

\* the SELECT of Footprints.get on the rows of the table
HasRow(t, u) == \E i \in 1..Len(t) : t[i].url = u

\* an INSERT into a table without a key on url
InsertPage_NoKey(t, u, kvs, at) ==
    [err |-> "", tbl |-> Append(t, [url |-> u, row |-> InsertRow(kvs, at)])]

\* INSERT INTO pages: url is the PRIMARY KEY (CREATE_PAGES), a second row
\* for a url is rejected with an IntegrityError
InsertPage(t, u, kvs, at) ==
    IF HasRow(t, u)
    THEN [err |-> "IntegrityError", tbl |-> t]
    ELSE [err |-> "", tbl |-> Append(t, [url |-> u, row |-> InsertRow(kvs, at)])]

\* UPDATE pages SET ... WHERE url=?: every row of the url, and a statement
\* sqlite rejects when no column is set
UpdatePage(t, u, kvs, at) ==
    IF Supplied(kvs) = {}
    THEN [err |-> "OperationalError", tbl |-> t]
    ELSE [err |-> "",
          tbl |-> [i \in 1..Len(t) |->
                      IF t[i].url = u
                      THEN [url |-> u, row |-> UpdateRow(t[i].row, kvs, at)]
                      ELSE t[i]]]

raceFrame ==
    <<cfg, api, store, now, counters, pc, locals, ret, ncalls, nterminal, pre, trace, prior,
      norm, runs, runlog, other>>

\* lines 66-68: connection p enters upsert(u, **kvs) and reads the row
UpsertGet(p, u, kvs) ==
    /\ clients[p].pc \in {"idle", "done"} /\ RaceOpsDone < StoreOps
    /\ clients' = [clients EXCEPT ![p] =
                      [pc |-> "got", n |-> clients[p].n + 1, url |-> u, kvs |-> kvs,
                       existing |-> HasRow(tbl, u), err |-> ""]]
    /\ UNCHANGED tbl
    /\ UNCHANGED raceFrame

\* lines 69-78: connection p runs its UPDATE or its INSERT and commits
UpsertWrite(p) ==
    /\ clients[p].pc = "got"
    /\ LET c == clients[p]
           r == IF c.existing THEN UpdatePage(tbl, c.url, c.kvs, now)
                ELSE InsertPage(tbl, c.url, c.kvs, now)
       IN  /\ tbl' = r.tbl
           /\ clients' = [clients EXCEPT ![p].pc = "done", ![p].err = r.err]
    /\ UNCHANGED raceFrame

RaceInit ==
    /\ Init
    /\ cfg = RouterConfig(TRUE, TRUE, TRUE, DefaultOrder)
    /\ pages = [u \in {} |-> NULL]

RaceNext ==
    \/ \E p \in Conns, u \in RaceUrls, kvs \in RaceKvs : UpsertGet(p, u, kvs)
    \/ \E p \in Conns : UpsertWrite(p)

RaceSpec == RaceInit /\ [][RaceNext]_vars

\* ------------------------------------ two calls on two URLs, interleaved
ConcUrls == {"u1", "u2"}
\* the URL of the call that is running
RunningUrl == IF other.id = "B" THEN "u1" ELSE "u2"
RunningId == IF other.id = "B" THEN "A" ELSE "B"

\* the scheduler takes the running call off and puts the other one on, every
\* call keeping the prev hashes of the one that was running
Switch_SharedPrev ==
    /\ other' = [id |-> RunningId, pc |-> pc, url |-> url, shot |-> shot,
                 prev_paddle_sha |-> prev_paddle_sha, prev_azure_sha |-> prev_azure_sha,
                 idx |-> idx, ocr_used |-> ocr_used, last_stage |-> last_stage,
                 ret |-> ret, trace |-> trace, pre |-> pre]
    /\ pc' = other.pc
    /\ url' = other.url
    /\ shot' = other.shot
    /\ UNCHANGED <<prev_paddle_sha, prev_azure_sha>>
    /\ idx' = other.idx
    /\ ocr_used' = other.ocr_used
    /\ last_stage' = other.last_stage
    /\ ret' = other.ret
    /\ trace' = other.trace
    /\ pre' = IF other.url = "" THEN Snapshot ELSE other.pre
    /\ UNCHANGED <<cfg, api, store, now, counters, ncalls, nterminal, prior,
                   norm, runs, runlog, tbl, clients>>

\* the scheduler takes the running call off and puts the other one on: the
\* arguments and locals of check_or_escalate belong to the call
Switch ==
    /\ other' = [id |-> RunningId, pc |-> pc, url |-> url, shot |-> shot,
                 prev_paddle_sha |-> prev_paddle_sha, prev_azure_sha |-> prev_azure_sha,
                 idx |-> idx, ocr_used |-> ocr_used, last_stage |-> last_stage,
                 ret |-> ret, trace |-> trace, pre |-> pre]
    /\ pc' = other.pc
    /\ url' = other.url
    /\ shot' = other.shot
    /\ prev_paddle_sha' = other.prev_paddle_sha
    /\ prev_azure_sha' = other.prev_azure_sha
    /\ idx' = other.idx
    /\ ocr_used' = other.ocr_used
    /\ last_stage' = other.last_stage
    /\ ret' = other.ret
    /\ trace' = other.trace
    /\ pre' = IF other.url = "" THEN Snapshot ELSE other.pre
    /\ UNCHANGED <<cfg, api, store, now, counters, ncalls, nterminal, prior,
                   norm, runs, runlog, tbl, clients>>

\* one call per URL: the running call starts once
ConcNext ==
    \/ \E b \in Shots : url = "" /\ FastPathSkip(RunningUrl, b)
    \/ \E b \in Shots : url = "" /\ BeginWalk(RunningUrl, b)
    \/ PaddleStage
    \/ PaddleRaises
    \/ AzureStage
    \/ AzureRaises
    \/ GeminiStage
    \/ SkipStage
    \/ Exhausted
    \/ Switch

ConcSpec == StoreInit /\ [][ConcNext]_vars

\* --------------------------------------------------- text_sha on its own
\* the characters of the texts: a letter in both cases, the sigma in both
\* cases, whitespace, and a character _normalize_text drops
NormLetters == {"a", "A", "SIGMA", "sigma"}
NormSpaces == {" ", "\n"}
NormNoise == {"#"}
\* the texts of at most n characters
TextsUpTo(n) ==
    UNION { [1..k -> NormLetters \cup {" "} \cup NormNoise] : k \in 0..n }

\* the other case of a letter
SwapCase(ch) ==
    CASE ch = "a" -> "A" [] ch = "A" -> "a"
      [] ch = "SIGMA" -> "sigma" [] ch = "sigma" -> "SIGMA"
      [] OTHER -> ch
InsertAt(s, i, ch) == SubSeq(s, 1, i) \o <<ch>> \o SubSeq(s, i + 1, Len(s))

\* no call is running and no store is in use: two equal texts are at hand
NormInit ==
    /\ RouterInit
    /\ cfg = RouterConfig(TRUE, TRUE, TRUE, DefaultOrder)
    /\ pages = [u \in {} |-> NULL]
    /\ norm \in { [s1 |-> s, s2 |-> s] : s \in TextsUpTo(NormLen - 1) }
    /\ runs = <<>>
    /\ runlog = NoRunLog
    /\ tbl = <<>>
    /\ clients = [p \in Conns |-> NoCall]
    /\ other = NoContext("B")

normFrame ==
    <<cfg, api, store, now, counters, pc, locals, ret, ncalls, nterminal, pre, trace, prior,
      runs, runlog, tbl, clients, other>>

\* the second text gets one letter in the other case
ChangeCase(i) ==
    /\ i \in 1..Len(norm.s2) /\ norm.s2[i] \in NormLetters
    /\ norm' = [norm EXCEPT !.s2 = [norm.s2 EXCEPT ![i] = SwapCase(norm.s2[i])]]
    /\ UNCHANGED normFrame

\* a run of whitespace of the second text gets one whitespace character more
StretchSpace(i, w) ==
    /\ i \in 1..Len(norm.s2) /\ IsSpace(norm.s2[i]) /\ Len(norm.s2) < NormLen
    /\ norm' = [norm EXCEPT !.s2 = InsertAt(norm.s2, i, w)]
    /\ UNCHANGED normFrame

\* the second text gets a noise character somewhere
AddNoise(i, ch) ==
    /\ i \in 0..Len(norm.s2) /\ Len(norm.s2) < NormLen
    /\ norm' = [norm EXCEPT !.s2 = InsertAt(norm.s2, i, ch)]
    /\ UNCHANGED normFrame

NormNext ==
    \/ \E i \in 1..NormLen : ChangeCase(i)
    \/ \E i \in 1..NormLen, w \in NormSpaces : StretchSpace(i, w)
    \/ \E i \in 0..NormLen, ch \in NormNoise : AddNoise(i, ch)

NormSpec == NormInit /\ [][NormNext]_vars

\* ------------------------------------------------------------------ claims
\* the last call has ended, by a return or by an error
CallDone == ncalls > 0 /\ pc = "idle" /\ ret.kind # "none"
\* the last call has the arguments of the call before it
SameArgs == prior.url = url /\ prior.shot = shot
\* the tier state of u's fingerprint: no row, or its hashes and last tier
Fingerprint(pg, u) ==
    IF u \in DOMAIN pg
    THEN {[screenshot_sha |-> pg[u].screenshot_sha, text_sha_paddle |-> pg[u].text_sha_paddle,
           text_sha_azure |-> pg[u].text_sha_azure, last_model |-> pg[u].last_model]}
    ELSE {}
TextShaColumn(tier) == IF tier = "paddle" THEN "text_sha_paddle" ELSE "text_sha_azure"
\* the text hash of a cheap tier as a reader of the store sees it ("" without a row)
StoredTextSha(pg, u, tier) ==
    IF u \in DOMAIN pg /\ pg[u][TextShaColumn(tier)] # NULL
    THEN pg[u][TextShaColumn(tier)] ELSE EmptyStr
CheapRuns == {i \in 1..Len(trace) : trace[i].tier \in {"paddle", "azure"} /\ ~trace[i].raised}
CallbackRuns == {i \in 1..Len(trace) : trace[i].tier = "gemini"}

\* C1: a call that ends in an error of the expensive callback leaves the
\* fingerprint of its URL (screenshot hash, both text hashes, last tier) as
\* it was when the call started.
C1_CallbackErrorKeepsFingerprint ==
    (CallDone /\ ret.by = "callback") =>
        Fingerprint(pages, url) = Fingerprint(pre.pages, url)

\* C2: the call after a call in which the callback raised, with the same
\* arguments, is a clean retry: it is not skipped, it does not resolve at a
\* cheap tier, and when it returns it returns the expensive tier's result.
C2_CleanRetryAfterCallbackError ==
    (CallDone /\ prior.by = "callback" /\ SameArgs) =>
        /\ ret.status # "skipped"
        /\ ~(ret.status \in {"paddle", "azure"} /\ ~ret.changed)
        /\ (ret.kind = "returned" => ret.status = "gemini")

\* C3 as stated: after a call that returned a decision, the next call with the
\* same arguments returns skipped, changed=false.
C3_SecondCallSkipped ==
    (ncalls > 0 /\ prior.kind = "returned" /\ SameArgs) =>
        pc = "idle" /\ ret = Returned("skipped", FALSE, NoFields)

\* C3 amended: after a call that returned a decision other than noop, the next
\* call with the same arguments returns skipped, changed=false.
C3_SecondCallSkippedUnlessNoop ==
    (ncalls > 0 /\ prior.kind = "returned" /\ prior.status # "noop" /\ SameArgs) =>
        pc = "idle" /\ ret = Returned("skipped", FALSE, NoFields)

C3_Witness ==
    /\ CallDone /\ SameArgs /\ ret.status = "skipped"
    /\ prior.kind = "returned" /\ prior.status = "gemini"

\* C4: the three counters add up to the number of calls that returned a
\* fast-path skip, a cheap-tier resolution or an expensive-tier result.
C4_CounterConservation ==
    skipped_nochange + used_cheap_ocr + escalated_to_gemini = nterminal

\* C5: a call that ends in exhaustion after an analyzer ran returns the name of
\* the last tier whose analyzer ran, changed=true and no fields.
C5_ExhaustionNamesLastTierRun ==
    (CallDone /\ ret.kind = "returned" /\ idx > Len(cfg.order) /\ ocr_used) =>
        ret = Returned(trace[Len(trace)].tier, TRUE, NoFields)

EscalationReasons == {"low-confidence", "low-text-volume", "content-changed"}

\* C6: every recorded EscalationEvent carries a reason of the enum
\* {low-confidence, low-text-volume, content-changed}.
C6_ReasonInEnum ==
    \A i \in 1..Len(escalations) : escalations[i].reason \in EscalationReasons

\* the escalation predicate as the specification words it, on a cheap tier's
\* output and that tier's hash stored when the call started
SpecifiedEscalation(e) ==
    LET before == StoredTextSha(pre.pages, url, e.tier)
    IN  \/ ~NonBlank(e.text)
        \/ Len(e.text) < MinChars
        \/ e.confidence < MinConfidence
        \/ (before # EmptyStr /\ before # <<"sha256">> \o normalize_text(e.text))

\* C7: a cheap tier escalates if and only if its text is blank, or shorter than
\* minCharsForConfidence, or its confidence is below minConfidence, or that
\* tier's own hash stored before the call is non-empty and differs from the
\* new text hash.
C7_EscalationPredicate ==
    \A i \in CheapRuns : trace[i].escalated <=> SpecifiedEscalation(trace[i])

\* the cloud tier escalates on changed content alone, on a text whose hash is
\* the one stored for the local tier
C7_Witness ==
    \E i \in CheapRuns :
        /\ trace[i].tier = "azure" /\ trace[i].escalated
        /\ Len(trace[i].text) = MinChars /\ trace[i].confidence = MinConfidence
        /\ StoredTextSha(pre.pages, url, "paddle") = text_sha(trace[i].text)
        /\ StoredTextSha(pre.pages, url, "azure") # EmptyStr

\* the stored screenshot hash of the call's URL was the hash of its screenshot
\* when the call started
C8_Unchanged ==
    /\ ncalls > 0 /\ url \in DOMAIN pre.pages
    /\ pre.pages[url].screenshot_sha = <<"sha1", shot>>

\* C8: a call whose screenshot hash is the stored one returns skipped,
\* changed=false, runs no analyzer and no callback, records no escalation and
\* changes nothing of the row but last_seen.
C8_FastPathFirst ==
    C8_Unchanged =>
        /\ pc = "idle" /\ ret = Returned("skipped", FALSE, NoFields)
        /\ trace = <<>>
        /\ Len(escalations) = pre.nesc
        /\ url \in DOMAIN pages
        /\ \A c \in DOMAIN pages[url] \ {"last_seen"} : pages[url][c] = pre.pages[url][c]
        /\ pages[url].last_seen = now
        /\ skipped_nochange = pre.skipped + 1

C8_Witness ==
    /\ C8_Unchanged /\ ret.status = "skipped"
    /\ pre.pages[url].text_sha_paddle # NULL /\ pre.pages[url].last_model = Str("azure")

\* C9: a call invokes the expensive callback at most once, only with the
\* expensive tier enabled and in the order, never on a skip and never after a
\* cheap tier that resolved (every analyzer run before it escalated).
C9_CallbackAtMostOnce ==
    /\ Cardinality(CallbackRuns) <= 1
    /\ \A i \in CallbackRuns :
        /\ cfg.enable_gemini
        /\ \E k \in 1..Len(cfg.order) : cfg.order[k] = "gemini"
        /\ i = Len(trace)
        /\ ret.status # "skipped"
        /\ \A j \in 1..(i - 1) : trace[j].escalated

C9_Witness ==
    /\ CallDone /\ Len(trace) = 3 /\ trace[3].tier = "gemini"
    /\ trace[1].escalated /\ trace[2].escalated

\* C10: a disabled tier is never invoked, and the stored text hash of a
\* disabled cheap tier is what it was when the call started.
C10_DisabledTierSkipped ==
    /\ \A i \in 1..Len(trace) :
        /\ trace[i].tier = "paddle" => cfg.enable_paddle
        /\ trace[i].tier = "azure" => cfg.enable_azure
        /\ trace[i].tier = "gemini" => cfg.enable_gemini
    /\ ~cfg.enable_paddle =>
        StoredTextSha(pages, url, "paddle") = StoredTextSha(pre.pages, url, "paddle")
    /\ ~cfg.enable_azure =>
        StoredTextSha(pages, url, "azure") = StoredTextSha(pre.pages, url, "azure")

\* the cloud tier wrote its hash next to a stored hash of the disabled local tier
C10_Witness ==
    /\ CallDone /\ ~cfg.enable_paddle /\ cfg.enable_azure
    /\ StoredTextSha(pre.pages, url, "paddle") # EmptyStr
    /\ CheapRuns # {}
    /\ StoredTextSha(pages, url, "azure") # StoredTextSha(pre.pages, url, "azure")

\* the place of a tier name in cfg.order (0 when it is not in it)
OrderPos(tier) ==
    IF \E k \in 1..Len(cfg.order) : cfg.order[k] = tier
    THEN CHOOSE k \in 1..Len(cfg.order) : cfg.order[k] = tier
    ELSE 0
TierEnabled(tier) ==
    CASE tier = "paddle" -> cfg.enable_paddle
      [] tier = "azure" -> cfg.enable_azure
      [] tier = "gemini" -> cfg.enable_gemini
      [] OTHER -> FALSE
\* a trace entry after which the call is over: an error, a cheap tier that
\* resolved, the expensive tier
EndsCall(e) == e.raised \/ e.tier = "gemini" \/ ~e.escalated

\* C11: the tiers a call runs are in the order of tierOrder; when a tier runs,
\* every enabled tier before it in tierOrder has run; nothing runs after a tier
\* that returned a decision or raised.
C11_TiersRunInOrder ==
    /\ \A i, j \in 1..Len(trace) :
        i < j => OrderPos(trace[i].tier) < OrderPos(trace[j].tier)
    /\ \A i \in 1..Len(trace) :
        /\ OrderPos(trace[i].tier) > 0
        /\ \A k \in 1..(OrderPos(trace[i].tier) - 1) :
            /\ (TierEnabled(cfg.order[k]) /\ cfg.order[k] # "gemini") =>
                    \E j \in 1..(i - 1) : trace[j].tier = cfg.order[k]
            /\ cfg.order[k] = "gemini" => ~cfg.enable_gemini
        /\ EndsCall(trace[i]) => i = Len(trace)

\* the cloud tier first, then the local tier, then the callback
C11_Witness ==
    /\ CallDone /\ cfg.order = <<"azure", "paddle", "gemini">>
    /\ Len(trace) = 3
    /\ trace[1].tier = "azure" /\ trace[2].tier = "paddle" /\ trace[3].tier = "gemini"

\* what the three counters, as summary() reports them, gained since the call
\* started
CounterDelta ==
    <<summary[1] - pre.skipped, summary[2] - pre.cheap, summary[3] - pre.gemini>>
\* the loop of the last call ran off the end of cfg.order
EndedInLoopExit == idx > Len(cfg.order)

\* the counters a returned call moved: the one of its kind, by one
ExactCounter ==
    (CallDone /\ ret.kind = "returned") =>
        CounterDelta =
            CASE ret.status = "skipped" -> <<1, 0, 0>>
              [] ret.status \in {"paddle", "azure"} /\ ~ret.changed -> <<0, 1, 0>>
              [] EndedInLoopExit -> <<0, 0, 0>>
              [] OTHER -> <<0, 0, 1>>

\* this step lowers no counter
NoDecrease ==
    /\ skipped_nochange' >= skipped_nochange
    /\ used_cheap_ocr' >= used_cheap_ocr
    /\ escalated_to_gemini' >= escalated_to_gemini

\* C13: a call that returns a fast-path skip adds one to skipped_nochange
\* alone, a cheap tier resolving with changed=false adds one to used_cheap_ocr
\* alone, an expensive-tier result adds one to escalated_to_gemini alone, and
\* exhaustion or noop changes no counter, all as summary() reports them; and
\* no step lowers a counter.
C13_CountersExactAndMonotone == [](ExactCounter) /\ [][NoDecrease]_vars

C13_Witness ==
    /\ CallDone /\ ret = Returned("gemini", TRUE, NoFields) /\ EndedInLoopExit
    /\ CounterDelta = <<0, 0, 0>> /\ used_cheap_ocr = 1

AllDisabled == ~cfg.enable_paddle /\ ~cfg.enable_azure /\ ~cfg.enable_gemini

\* C14 as stated: with all three tiers disabled every call returns noop,
\* changed=true, no fields, and increments no counter, whatever the store held.
C14_DisabledAlwaysNoop ==
    (AllDisabled /\ CallDone) =>
        ret = Returned("noop", TRUE, NoFields) /\ CounterDelta = <<0, 0, 0>>

\* C14 amended: with all three tiers disabled, every call whose screenshot
\* hash is not the one stored for its URL returns noop, changed=true, no
\* fields, increments no counter and leaves the store as it was.
C14_DisabledNoopUnlessUnchanged ==
    (AllDisabled /\ CallDone /\ ~C8_Unchanged) =>
        /\ ret = Returned("noop", TRUE, NoFields)
        /\ CounterDelta = <<0, 0, 0>>
        /\ trace = <<>>
        /\ pages = pre.pages /\ Len(escalations) = pre.nesc

C14_Witness ==
    /\ AllDisabled /\ CallDone /\ ~C8_Unchanged
    /\ url \in DOMAIN pre.pages /\ ret.status = "noop"

\* C15: when a cheap tier's analyzer raises, the call ends there with that
\* error: nothing runs after it, the escalation events of the call are those
\* of the tiers that escalated before it, and no counter has moved.
C15_AnalyzerErrorPropagates ==
    \A i \in 1..Len(trace) :
        (trace[i].raised /\ trace[i].tier \in {"paddle", "azure"}) =>
            /\ i = Len(trace)
            /\ pc = "idle" /\ ret = Raised(trace[i].tier)
            /\ Len(escalations) = pre.nesc + Cardinality({j \in 1..(i - 1) : trace[j].escalated})
            /\ \A k \in (pre.nesc + 1)..Len(escalations) :
                    escalations[k].from_model # trace[i].tier
            /\ CounterDelta = <<0, 0, 0>>

\* the cloud tier raises after the local tier escalated, expensive tier enabled
C15_Witness ==
    /\ CallDone /\ cfg.enable_gemini /\ cfg.order = DefaultOrder
    /\ Len(trace) = 2 /\ trace[1].tier = "paddle" /\ trace[1].escalated
    /\ trace[2].tier = "azure" /\ trace[2].raised

\* default order, local and expensive tiers enabled, cloud tier disabled, and
\* the local tier escalated in the last call
ScenarioB ==
    /\ cfg.order = DefaultOrder
    /\ cfg.enable_paddle /\ ~cfg.enable_azure /\ cfg.enable_gemini
    /\ CallDone /\ Len(trace) >= 1 /\ trace[1].tier = "paddle" /\ trace[1].escalated

\* C16: in scenario B no cloud analyzer runs, the callback runs at most once
\* and the expensive tier is counted once; a call that returns returns gemini,
\* changed=true and the mapping the callback returned (no fields without a
\* callback).
C16_LocalEscalatesToExpensive ==
    ScenarioB =>
        /\ \A i \in 1..Len(trace) : trace[i].tier # "azure"
        /\ Cardinality(CallbackRuns) <= 1
        /\ Len(trace) = 1 + Cardinality(CallbackRuns)
        /\ CounterDelta = <<0, 0, 1>>
        /\ ret.kind = "raised" => ret.by = "callback" /\ trace[Len(trace)].raised
        /\ ret.kind = "returned" =>
                ret = Returned("gemini", TRUE,
                               IF CallbackRuns = {} THEN [n \in {} |-> ""]
                               ELSE trace[Len(trace)].returned)

\* the local tier escalates on changed content alone and the callback returns fields
C16_Witness ==
    /\ ScenarioB /\ ret.kind = "returned" /\ ret.fields # [n \in {} |-> ""]
    /\ Len(trace[1].text) = MinChars /\ trace[1].confidence >= MinConfidence
    /\ StoredTextSha(pre.pages, url, "paddle") # EmptyStr

\* a URL without a stored row, the local tier enabled and first in the order,
\* and its analyzer returned adequate text
ScenarioA ==
    /\ ncalls > 0 /\ url \notin DOMAIN pre.pages
    /\ cfg.enable_paddle /\ cfg.order[1] = "paddle"
    /\ Len(trace) >= 1 /\ trace[1].tier = "paddle" /\ ~trace[1].raised
    /\ \E k \in 1..Len(trace[1].text) : trace[1].text[k] # " "
    /\ Len(trace[1].text) >= MinChars /\ trace[1].confidence >= MinConfidence

\* C17: in scenario A the local tier does not escalate and the call returns
\* paddle, changed=false, no fields, with used_cheap_ocr one higher and the
\* other counters as they were.
C17_FreshUrlResolvesLocally ==
    ScenarioA =>
        /\ ~trace[1].escalated /\ Len(trace) = 1
        /\ pc = "idle" /\ ret = Returned("paddle", FALSE, NoFields)
        /\ CounterDelta = <<0, 1, 0>>
        /\ Len(escalations) = pre.nesc

C17_Witness ==
    /\ ScenarioA /\ CallDone
    /\ Len(trace[1].text) = MinChars /\ trace[1].confidence = MinConfidence

\* this step is a direct call of upsert (api' holds its arguments)
DirectStep == api'.n # api.n
\* the keyword arguments of this step's direct call that are not None
DirectSupplied == {c \in DOMAIN api'.kvs : api'.kvs[c] # <<"None">>}
\* this step is check_or_escalate storing the text hash of a cheap tier
RouterWrites(tier) ==
    /\ Len(trace') = Len(trace) + 1
    /\ trace'[Len(trace')].tier = tier /\ ~trace'[Len(trace')].raised
\* this step writes the text hash of a cheap tier and is not given the other's
WritesTextShaOf(tier, second) ==
    \/ RouterWrites(tier)
    \/ DirectStep /\ TextShaColumn(tier) \in DirectSupplied
                  /\ TextShaColumn(second) \notin DirectSupplied

\* C12: a step of check_or_escalate or a direct upsert that writes the cloud
\* tier's text hash leaves the local tier's stored text hash as it was, and a
\* step that writes the local tier's leaves the cloud tier's as it was.
C12_TierIsolation ==
    [][\A u \in Urls :
        /\ WritesTextShaOf("azure", "paddle") =>
                StoredTextSha(pages', u, "paddle") = StoredTextSha(pages, u, "paddle")
        /\ WritesTextShaOf("paddle", "azure") =>
                StoredTextSha(pages', u, "azure") = StoredTextSha(pages, u, "azure")]_vars

\* a direct upsert wrote the cloud tier's hash, then a call stored another
\* hash for the local tier, and both are in the row
C12_Witness ==
    /\ api.n > 0 /\ DOMAIN api.kvs = {"text_sha_azure"} /\ CallDone
    /\ Len(trace) >= 1 /\ trace[1].tier = "paddle" /\ ~trace[1].raised
    /\ pages[url].text_sha_azure = api.kvs.text_sha_azure
    /\ pages[url].text_sha_paddle = <<"sha256">> \o normalize_text(trace[1].text)
    /\ pages[url].text_sha_paddle # pages[url].text_sha_azure

\* C18: every direct call of upsert completes and leaves last_seen of its row
\* at the current time.
C18_UpsertRefreshesLastSeen ==
    [][DirectStep =>
        /\ ~api'.err
        /\ api'.url \in DOMAIN pages'
        /\ pages'[api'.url].last_seen = now]_vars

\* C19: a direct upsert on an existing row writes the supplied columns and
\* leaves every other column but last_seen, first_seen included, as it was;
\* on a new row first_seen and last_seen are the current time and a column
\* not supplied reads back empty. No step of any kind changes a first_seen.
C19_PartialUpdate ==
    [][/\ \A u \in DOMAIN pages :
            u \in DOMAIN pages' /\ pages'[u].first_seen = pages[u].first_seen
       /\ DirectStep =>
            LET u == api'.url
            IN  IF u \in DOMAIN pages
                THEN /\ \A c \in DOMAIN pages[u] \ (DirectSupplied \cup {"last_seen"}) :
                            pages'[u][c] = pages[u][c]
                     /\ ~api'.err => \A c \in DirectSupplied : pages'[u][c] = api'.kvs[c]
                ELSE /\ u \in DOMAIN pages'
                     /\ pages'[u].first_seen = now /\ pages'[u].last_seen = now
                     /\ \A c \in DirectSupplied : pages'[u][c] = api'.kvs[c]
                     /\ \A c \in {"screenshot_sha", "text_sha_paddle", "text_sha_azure",
                                   "last_model", "canonical_url", "etag", "last_modified"}
                                  \ DirectSupplied :
                            Get(pages', u)[c] = EmptyStr]_vars

\* a row inserted after the clock moved, with one column supplied beside a None
C19_Witness ==
    /\ api.n > 0 /\ DOMAIN api.kvs = {"screenshot_sha", "etag"} /\ ~api.err
    /\ api.url \in DOMAIN pages
    /\ pages[api.url].first_seen > 0 /\ pages[api.url].etag = NULL

\* C20: no step lowers the last_seen of a stored row (the clock of the model
\* never goes back).
C20_LastSeenMonotonic ==
    [][\A u \in DOMAIN pages :
        u \in DOMAIN pages' /\ pages'[u].last_seen >= pages[u].last_seen]_vars

\* a row written by a direct upsert and by a call, last at a later time than
\* its first
C20_Witness ==
    /\ api.n > 0 /\ ~api.err /\ CallDone /\ url \in DOMAIN pages
    /\ pages[url].last_seen = now /\ pages[url].last_seen > pages[url].first_seen

\* this step of check_or_escalate is a cheap tier whose predicate fired
EscalationDecided ==
    /\ Len(trace') = Len(trace) + 1
    /\ trace'[Len(trace')].escalated

\* C22: the escalations log only grows at its end, by one row in a step in
\* which a cheap tier's escalation predicate fires (a row of that URL and
\* tier) and by none in every other step; the rows a call has added are as
\* many as its cheap tiers that escalated.
C22_EscalationsAppendOnly ==
    /\ [](Len(escalations) = pre.nesc + Cardinality({i \in 1..Len(trace) : trace[i].escalated}))
    /\ [][/\ Len(escalations') >= Len(escalations)
          /\ SubSeq(escalations', 1, Len(escalations)) = escalations
          /\ IF EscalationDecided
             THEN /\ Len(escalations') = Len(escalations) + 1
                  /\ escalations'[Len(escalations')].url = url
                  /\ escalations'[Len(escalations')].from_model = trace'[Len(trace')].tier
             ELSE escalations' = escalations]_vars

\* two rows in the log, of the two cheap tiers of one call
C22_Witness ==
    /\ Len(escalations) = 2 /\ Len(trace) >= 2
    /\ escalations[1].from_model = trace[1].tier
    /\ escalations[2].from_model = trace[2].tier
    /\ escalations[1].from_model # escalations[2].from_model

\* C23: a stored row stays stored and keeps its first_seen in every step, of
\* check_or_escalate and of a direct upsert alike.
C23_NeverDeleted ==
    [][\A u \in DOMAIN pages :
        /\ u \in DOMAIN pages'
        /\ pages'[u].first_seen = pages[u].first_seen]_vars

\* a row inserted by a direct upsert after the clock moved, then rewritten by
\* a call
C23_Witness ==
    /\ CallDone /\ api.n > 0 /\ ~api.err /\ api.url = url
    /\ url \in DOMAIN pre.pages /\ pre.pages[url].first_seen > 0
    /\ pages[url] # pre.pages[url]
    /\ pages[url].first_seen = pre.pages[url].first_seen

\* C24 as stated: after a call that returned a decision the store holds a row
\* for its URL.
C24_RowAfterDecision ==
    (CallDone /\ ret.kind = "returned") => url \in DOMAIN pages

\* C24 amended: after a call that returned a decision other than noop the
\* store holds a row for its URL, with the hash of the call's screenshot.
C24_RowAfterDecisionUnlessNoop ==
    (CallDone /\ ret.kind = "returned" /\ ret.status # "noop") =>
        url \in DOMAIN pages /\ pages[url].screenshot_sha = <<"sha1", shot>>

\* the expensive tier alone created the row
C24_Witness ==
    /\ CallDone /\ ret.kind = "returned" /\ ret.status = "gemini" /\ trace = <<>>
    /\ url \notin DOMAIN pre.pages /\ url \in DOMAIN pages

\* C28: the step in which a cheap tier's analyzer returns leaves the row of
\* the URL with the hash of the new screenshot, that tier's hash of the
\* normalised text and that tier as last tier, whether or not the tier
\* escalates; on adequate text it escalates exactly when the hash that tier
\* had when the call started is non-empty and differs from the new one.
C28_PersistThenEvaluate ==
    [][\A tier \in {"paddle", "azure"} :
        RouterWrites(tier) =>
            LET e == trace'[Len(trace')]
                new == <<"sha256">> \o normalize_text(e.text)
                before == StoredTextSha(pre.pages, url, tier)
            IN  /\ url \in DOMAIN pages'
                /\ pages'[url].screenshot_sha = <<"sha1", shot>>
                /\ pages'[url][TextShaColumn(tier)] = new
                /\ pages'[url].last_model = <<tier>>
                /\ (Len(e.text) >= MinChars /\ e.confidence >= MinConfidence) =>
                        (e.escalated <=> (before # EmptyStr /\ before # new))]_vars

\* a cheap tier escalated on changed content and its new hash is in the row
C28_Witness ==
    /\ pc = "walk" /\ Len(trace) = 1 /\ trace[1].escalated
    /\ Len(trace[1].text) >= MinChars /\ trace[1].confidence >= MinConfidence
    /\ pages[url][TextShaColumn(trace[1].tier)] = <<"sha256">> \o normalize_text(trace[1].text)
    /\ pre.pages[url][TextShaColumn(trace[1].tier)] # pages[url][TextShaColumn(trace[1].tier)]

\* C29: the call after a call in which the cloud analyzer raised once the
\* local tier had run and escalated, with the same arguments, is not skipped:
\* it walks the tiers again.
C29_RetryAfterCloudError ==
    (CallDone /\ SameArgs /\ prior.kind = "raised" /\ prior.by = "azure"
        /\ cfg.enable_paddle /\ 0 < OrderPos("paddle") /\ OrderPos("paddle") < OrderPos("azure")) =>
            ret.status # "skipped" /\ trace # <<>>

\* the expensive stage of the last call ran and returned
ExpensiveResult ==
    /\ ret.kind = "returned" /\ ~EndedInLoopExit
    /\ idx >= 1 /\ cfg.order[idx] = "gemini"

\* C30: a returned decision has changed=false only when it is skipped or a
\* cheap tier that resolved without escalating; noop and an expensive-tier
\* result have changed=true; fields is non-empty only when the callback ran
\* in the call and returned that non-empty mapping.
C30_DecisionConsistent ==
    (CallDone /\ ret.kind = "returned") =>
        /\ ~ret.changed =>
              \/ ret.status = "skipped" /\ trace = <<>>
              \/ /\ ret.status \in {"paddle", "azure"} /\ trace # <<>>
                 /\ trace[Len(trace)].tier = ret.status /\ ~trace[Len(trace)].escalated
        /\ ret.status = "noop" => ret.changed
        /\ ExpensiveResult => ret.changed /\ ret.status = "gemini"
        /\ ret.fields # [n \in {} |-> ""] =>
              /\ ExpensiveResult /\ CallbackRuns # {}
              /\ trace[Len(trace)].returned = ret.fields

C30_Witness ==
    /\ CallDone /\ ExpensiveResult /\ ret.fields # [n \in {} |-> ""]
    /\ Len(trace) = 2 /\ trace[1].escalated

\* an analyzer output with text s that is confident enough
Confident(s) == [text |-> s, confidence |-> MinConfidence]

\* C27: two texts that differ only in letter case, in runs of whitespace and
\* in dropped characters have the same text hash, and the hash of the one
\* stored as previous hash gives the other no reason to escalate.
C27_NoiseInsensitive ==
    /\ text_sha(norm.s1) = text_sha(norm.s2)
    /\ needs_escalation(cfg, Confident(norm.s2), text_sha(norm.s1))
         = needs_escalation(cfg, Confident(norm.s2), EmptyStr)

\* C21: every record_run_summary call has added one row to the runs log: the
\* log holds as many rows as calls were made and the last call did not fail.
C21_OneRowPerSummary ==
    Len(runs) = runlog.calls /\ ~runlog.err

\* this step is connection p running the INSERT of its upsert call
InsertStep(p) == clients[p].pc = "got" /\ clients'[p].pc = "done" /\ ~clients[p].existing

\* C25: the pages table never holds two rows of one url; the INSERT of an
\* upsert call that found no row, run when another call has stored the url in
\* between, ends in an error and leaves the table as it was.
C25_UrlUnique ==
    /\ [](\A i, j \in 1..Len(tbl) : tbl[i].url = tbl[j].url => i = j)
    /\ [][\A p \in Conns :
            (InsertStep(p) /\ HasRow(tbl, clients[p].url)) =>
                clients'[p].err # "" /\ tbl' = tbl]_vars

\* two calls for a new url both found no row; one inserted it, the other failed
C25_Witness ==
    /\ clients["c1"].pc = "done" /\ clients["c2"].pc = "done"
    /\ clients["c1"].url = clients["c2"].url
    /\ ~clients["c1"].existing /\ ~clients["c2"].existing
    /\ clients["c1"].err = "" /\ clients["c2"].err = "IntegrityError"
    /\ Len(tbl) = 1 /\ tbl[1].url = clients["c1"].url

\* the row of u as a reader finds it: a set with the row, or empty
RowOf(pg, u) == IF u \in DOMAIN pg THEN {pg[u]} ELSE {}
\* the running call has stored its screenshot hash
RunningWrote ==
    \/ pc = "idle" /\ ret.kind = "returned" /\ ret.status = "skipped"
    \/ CheapRuns # {}
    \/ pc = "idle" /\ ret.kind = "returned" /\ ret.status = "gemini" /\ ~EndedInLoopExit

\* what a call running alone on the store it found does: it is skipped exactly
\* when the row it found has its screenshot hash, its cheap tiers escalate on
\* the hashes of the row it found, and the row of its URL holds what it found
\* but for what the call itself stored
AsIfAlone ==
    url # "" =>
        /\ (trace = <<>> /\ pc = "idle" /\ ret = Returned("skipped", FALSE, NoFields))
              <=> (url \in DOMAIN pre.pages /\ pre.pages[url].screenshot_sha = <<"sha1", shot>>)
        /\ \A i \in CheapRuns : trace[i].escalated <=> SpecifiedEscalation(trace[i])
        /\ \A tier \in {"paddle", "azure"} :
              IF \E i \in CheapRuns : trace[i].tier = tier
              THEN \E i \in CheapRuns :
                      /\ trace[i].tier = tier
                      /\ pages[url][TextShaColumn(tier)] = <<"sha256">> \o normalize_text(trace[i].text)
              ELSE StoredTextSha(pages, url, tier) = StoredTextSha(pre.pages, url, tier)
        /\ IF RunningWrote
           THEN url \in DOMAIN pages /\ pages[url].screenshot_sha = <<"sha1", shot>>
           ELSE RowOf(pages, url) = RowOf(pre.pages, url)

\* C26: with a call on u1 and a call on u2 interleaved step by step, every
\* step leaves the row of the URL it is not working on as it was, and each
\* call decides and leaves its row as it does running alone on the store it
\* found.
C26_DifferentUrlsIndependent ==
    /\ [](AsIfAlone)
    /\ [][\A u \in ConcUrls : u # url' => RowOf(pages', u) = RowOf(pages, u)]_vars

\* both calls are inside their tier walk, each after a cheap tier stored its
\* hash, and the two rows hold different hashes
C26_Witness ==
    /\ pc = "walk" /\ other.pc = "walk"
    /\ CheapRuns # {} /\ other.trace # <<>>
    /\ DOMAIN pages = {"u1", "u2"}
    /\ pages["u1"].text_sha_paddle # pages["u2"].text_sha_paddle
    /\ pages["u1"].text_sha_paddle # NULL /\ pages["u2"].text_sha_paddle # NULL
====
